---- MODULE Spec2Model ----
(***************************************************************************)
(* The decode dispatch layer of bson/unmarshal.go: the seven Unmarshal*    *)
(* entry points, the pooled Decoder they share (decPool) and the           *)
(* dual-output commit of UnmarshalExtJSONWithRes.                          *)
(*                                                                         *)
(* A call is a goroutine running one entry point; NumCalls of them run     *)
(* concurrently and start a new call after the previous one returned.      *)
(* Each statement of unmarshalFromReader and UnmarshalExtJSONWithRes that  *)
(* touches the pool or the Decoder is one step, so that every              *)
(* interleaving of concurrent calls is explored.                           *)
(*                                                                         *)
(* The Decoder's methods (Reset, SetContext, Decode), decPool's New and    *)
(* the reader constructors live in files that are not part of the sources  *)
(* at hand (bson/decoder.go, bsonrw); they are modelled from the           *)
(* specification's contract for them.                                      *)
(***************************************************************************)
EXTENDS Integers, Sequences, FiniteSets, TLC

\* Goroutines that call the entry points concurrently.
NumCalls == 2

Calls == 1..NumCalls
\* One Decoder instance per possible in-flight call is all the pool can need.
Decoders == 1..NumCalls

\* A nil *Decoder, a nil *reflect.Value, a nil ValueReader.
NoDecoder == 0
NoSlot == 0
NoReader == 0
\* What a pointer to the reader or the capture slot of a call that is over
\* has become: memory no call can reach any more.
Gone == -1

----------------------------------------------------------------------------
(* Errors. Nil is Go's nil error. *)
Nil == "nil"
ErrReader == "ErrReader"
ErrReset == "ErrReset"
ErrContext == "ErrContext"
ErrInvalidDest == "ErrInvalidDest"
ErrNoDecoder == "ErrNoDecoder"
ErrDecode == "ErrDecode"

(* Inputs. *)
\* data []byte. The documents of different calls are different documents:
\* call c's encodes the value named c. What the bytes are is settled as
\* they are looked at, and input[c] is what is known of them so far:
\*   unread    nothing yet (a binary reader is constructed without a look)
\*   badframe  extended-JSON framing is malformed: reader construction fails
\*   incompat  the reader over them is one the Decoder's Reset rejects
\*   compat    Reset accepted the reader; the document is still unread
\*   baddoc    a node of the document is malformed
\*   ok        the document is well-formed
NoData == "none"
\* What a look that settles `from` into one of S finds in x.
Reveal(x, from, S) == IF x = from THEN S ELSE {x}

\* val interface{}: nil, a non-pointer, a pointer to a struct, a pointer to
\* something else (a map, a type with its own unmarshaler).
ValKinds == {"nil", "nonptr", "struct", "other"}
\* res interface{}: nil, a non-pointer, a pointer (to primitive.M).
ResKinds == {"nil", "nonptr", "ptr"}
\* The entry points pass val and res on without a look: which kind an
\* argument is gets settled when a callee inspects it (val also when the
\* call ends before that), and is "unseen" until then.
Unseen == "unseen"

DefaultRegistry == "DefaultRegistry"
CustomRegistry == "CustomRegistry"
Registries == {DefaultRegistry, CustomRegistry}

\* bsoncodec.DecodeContext{Registry, ValM, SetVal}; the zero value.
NoContext == [Registry |-> "none", ValM |-> NoSlot, SetVal |-> FALSE]
\* bsoncodec.DecodeContext{Registry: r}
RegistryContext(r) == [Registry |-> r, ValM |-> NoSlot, SetVal |-> FALSE]
\* The contexts a caller of call c hands to the *WithContext entry points:
\* a registry alone, dual-output without a capture slot, dual-output with
\* the caller's own slot.
CallerContexts(c) ==
    {RegistryContext(r) : r \in Registries}
        \cup {[Registry |-> DefaultRegistry, ValM |-> s, SetVal |-> TRUE] :
                s \in {NoSlot, c}}

(* Values in memory. *)
\* A destination before the call, after a failed traversal, after a
\* successful one, and after a traversal that read stale Decoder state.
PreCall == [state |-> "pre", v |-> 0]
Partial == [state |-> "partial", v |-> 0]
Stale == [state |-> "stale", v |-> 0]
Typed(v) == [state |-> "typed", v |-> v]
\* The generic (primitive.M) rendering of a document, and the zero
\* reflect.Value a fresh capture slot holds.
Generic(v) == [state |-> "generic", v |-> v]
ZeroValue == [state |-> "zero", v |-> 0]

----------------------------------------------------------------------------
VARIABLES
    pc,          \* pc[c]: the statement call c is at
    args,        \* args[c]: the entry point called and its arguments
    frame,       \* frame[c]: the call's locals vr/ejvr, dec, dc, err
    input,       \* input[c]: the bytes call c was given (its reader reads them)
    ops,         \* ops[c]: what the call has executed so far, with results
    dst,         \* dst[c]: the memory val points to
    res,         \* res[c]: the memory res points to
    slot,        \* slot[s]: the reflect.Value capture slot s holds
    pool,        \* decPool: the idle Decoders
    dec,         \* dec[d]: Decoder d's fields
    registries   \* registries[r][k]: Registry r has a rule for a val of kind k

vars ==
    <<pc, args, frame, input, ops, dst, res, slot, pool, dec, registries>>

NoArgs ==
    [fn |-> "none", val |-> Unseen, res |-> Unseen]
NoFrame ==
    [vr |-> NoReader, dec |-> NoDecoder, dc |-> NoContext, err |-> Nil,
     out |-> "running"]

\* new(Decoder)
FreshDecoder == [vr |-> NoReader, dc |-> NoContext, trav |-> "clean"]

Init ==
    /\ pc = [c \in Calls |-> "idle"]
    /\ args = [c \in Calls |-> NoArgs]
    /\ frame = [c \in Calls |-> NoFrame]
    /\ input = [c \in Calls |-> NoData]
    /\ ops = [c \in Calls |-> <<>>]
    /\ dst = [c \in Calls |-> PreCall]
    /\ res = [c \in Calls |-> PreCall]
    /\ slot = [c \in Calls |-> ZeroValue]
    /\ pool = {}
    /\ dec = [d \in Decoders |-> FreshDecoder]
    /\ registries =
        [r \in Registries |->
            [k \in {"struct", "other"} |-> r = DefaultRegistry \/ k = "struct"]]

----------------------------------------------------------------------------
(* The log of a call. *)
Op(name, err) == [op |-> name, err |-> err]
Log(c, name, err) == Append(ops[c], Op(name, err))
OpNames(c) == [i \in 1..Len(ops[c]) |-> ops[c][i].op]
Count(c, name) == Cardinality({i \in 1..Len(ops[c]) : ops[c][i].op = name})
HasOp(c, name) == Count(c, name) > 0
\* Call c has taken a Decoder from the pool and not put it back.
CheckedOut(c) == Count(c, "Get") > Count(c, "Put")
Holder(d) == {c \in Calls : CheckedOut(c) /\ frame[c].dec = d}
Allocated(d) == d \in pool \/ Holder(d) # {}

----------------------------------------------------------------------------
(* Readers (bsonrw). A reader is named by the call that constructed it   *)
(* and reads that call's input.                                           *)
\* bsonrw.NewBSONDocumentReader(data): cannot fail.
BSONFramings == {"unread"}
NewBSONDocumentReaderErr(data) == Nil
\* bsonrw.NewExtJSONValueReader(bytes.NewReader(data), canonical): fails on
\* malformed framing.
ExtJSONFramings == {"badframe", "unread"}
NewExtJSONValueReaderErr(data) == IF data = "badframe" THEN ErrReader ELSE Nil

(* The Decoder (bson/decoder.go). *)
\* (*Decoder).Reset(vr), the reader being over `data`.
ResetLooks(vr) == Reveal(input[vr], "unread", {"incompat", "compat"})
ResetErr(data) == IF data = "incompat" THEN ErrReset ELSE Nil
DecoderReset(ds, vr, data) ==
    IF ResetErr(data) # Nil THEN ds
    ELSE [ds EXCEPT !.vr = vr, !.trav = "clean"]

\* (*Decoder).SetContext(dc)
SetContextErr(dc) ==
    IF dc.SetVal /\ dc.ValM = NoSlot THEN ErrContext ELSE Nil
DecoderSetContext(ds, dc) ==
    IF SetContextErr(dc) # Nil THEN ds ELSE [ds EXCEPT !.dc = dc]

\* (*Decoder).Decode(val): what one call may do, given the Decoder's fields,
\* the kind of val and the memory val points to. wr: the capture slot
\* ds.dc.ValM is written with cap.
DecodeOutcome(err, d, wr, cap, trav) ==
    [err |-> err, dst |-> d, wr |-> wr, cap |-> cap, trav |-> trav]
\* An invalid val is refused before the reader is asked for anything.
DecodeLooks(ds, k) ==
    IF ds.vr \notin Calls THEN {NoData}
    ELSE IF k \in {"nil", "nonptr"} THEN {input[ds.vr]}
    ELSE Reveal(input[ds.vr], "compat", {"baddoc", "ok"})
DecoderDecode(ds, k, old, data) ==
    IF k \in {"nil", "nonptr"}
    THEN {DecodeOutcome(ErrInvalidDest, old, FALSE, ZeroValue, ds.trav)}
    ELSE IF ds.vr \notin Calls \/ ds.trav # "clean"
            \/ data \notin {"baddoc", "ok"}
    THEN \* no Reset since the last traversal, or the reader of a call
         \* that is over: stale state is read
         {DecodeOutcome(ErrDecode, old, FALSE, ZeroValue, "dirty"),
          DecodeOutcome(Nil, Stale, FALSE, ZeroValue, "dirty")}
    ELSE IF ds.dc.Registry \notin Registries
    THEN {DecodeOutcome(ErrNoDecoder, old, FALSE, ZeroValue, ds.trav)}
    ELSE IF ~registries[ds.dc.Registry][k]
    THEN {DecodeOutcome(ErrNoDecoder, old, FALSE, ZeroValue, ds.trav)}
    ELSE IF data # "ok"
    THEN {DecodeOutcome(ErrDecode, d, FALSE, ZeroValue, "dirty") :
            d \in {old, Partial}}
    ELSE {DecodeOutcome(Nil, Typed(ds.vr),
                        ds.dc.SetVal /\ ds.dc.ValM # NoSlot /\ k = "struct",
                        Generic(ds.vr), "dirty")}

----------------------------------------------------------------------------
(* decPool (sync.Pool). *)
FreeDecoders == {d \in Decoders : ~Allocated(d)}
\* What decPool.Get() may return: an idle Decoder, or the one New()
\* constructs (instances are named in the order they are constructed).
PoolGetChoices ==
    pool \cup
        (IF FreeDecoders = {} THEN {}
         ELSE {CHOOSE d \in FreeDecoders : \A e \in FreeDecoders : d <= e})

\* dec := decPool.Get().(*Decoder) giving d.
PoolGet(c, d) ==
    /\ d \in PoolGetChoices
    /\ pool' = pool \ {d}
    /\ dec' = IF d \in pool THEN dec ELSE [dec EXCEPT ![d] = FreshDecoder]
    /\ frame' = [frame EXCEPT ![c].dec = d]
    /\ ops' = [ops EXCEPT ![c] = Log(c, "Get", Nil)]

\* decPool.Put(dec)
PoolPut(c) == pool' = pool \cup {frame[c].dec}

Goto(c, l) == pc' = [pc EXCEPT ![c] = l]

\* The call goes on to the statement at l, err being the callee's result
\* logged as `name`.
Continue(c, name, err, l) ==
    /\ ops' = [ops EXCEPT ![c] = Log(c, name, err)]
    /\ frame' = [frame EXCEPT ![c].err = err]
    /\ Goto(c, l)
    /\ UNCHANGED pool

\* Fault variant of Exit: the Put is written after the error checks instead
\* of being deferred, so an error return skips it.
ExitPutNotDeferred(c, done, err, out) ==
    /\ ops' = [ops EXCEPT ![c] =
                IF err # Nil THEN ops[c] \o done
                ELSE ops[c] \o done \o <<Op("Put", Nil)>>]
    /\ frame' = [frame EXCEPT ![c].err = err, ![c].out = out]
    /\ pool' = IF err # Nil THEN pool ELSE pool \cup {frame[c].dec}
    /\ Goto(c, "done")

\* The call ends: it returns err, or panics (out), and on the way out the
\* deferred decPool.Put(dec) of lines 90 and 132 runs. done: what the call
\* did in this step.
Exit(c, done, err, out) ==
    /\ ops' = [ops EXCEPT ![c] = ops[c] \o done \o <<Op("Put", Nil)>>]
    /\ frame' = [frame EXCEPT ![c].err = err, ![c].out = out]
    /\ PoolPut(c)
    /\ Goto(c, "done")

\* The kinds val and res may turn out to be when looked at.
ValLooks(c) == Reveal(args[c].val, Unseen, ValKinds)
ResLooks(c) == Reveal(args[c].res, Unseen, ResKinds)
SeeVal(c, k) == args' = [args EXCEPT ![c].val = k]

----------------------------------------------------------------------------
(* The entry points: from the call to the first statement after the reader *)
(* is constructed.                                                         *)

\* A call that runs the body fn with the context dc, its reader
\* construction having given err: on an error the entry point returns it;
\* otherwise the reader exists and the body starts.
Enter(c, fn, data, err, dc) ==
    /\ pc[c] = "idle"
    /\ ops' = [ops EXCEPT ![c] = <<Op("NewReader", err)>>]
    /\ input' = [input EXCEPT ![c] = data]
    /\ IF err # Nil
       THEN /\ frame' = [frame EXCEPT ![c] =
                    [NoFrame EXCEPT !.err = err, !.out = "returned"]]
            /\ \E k \in ValKinds :
                    args' = [args EXCEPT ![c] = [NoArgs EXCEPT !.fn = fn,
                                                               !.val = k]]
            /\ Goto(c, "done")
       ELSE /\ frame' = [frame EXCEPT ![c] =
                    [NoFrame EXCEPT !.vr = c, !.dc = dc]]
            /\ args' = [args EXCEPT ![c] = [NoArgs EXCEPT !.fn = fn]]
            /\ Goto(c, "get")
    /\ UNCHANGED <<dst, res, slot, pool, dec, registries>>

\* Fault variant of lines 44-47: a registry that lacks rules is completed
\* from the default one before it is used.
CallUnmarshalWithRegistryCompleted(c, r, data) ==
    /\ pc[c] = "idle"
    /\ ops' = [ops EXCEPT ![c] = <<Op("NewReader", Nil)>>]
    /\ input' = [input EXCEPT ![c] = data]
    /\ frame' = [frame EXCEPT ![c] =
            [NoFrame EXCEPT !.vr = c, !.dc = RegistryContext(r)]]
    /\ args' = [args EXCEPT ![c] =
            [NoArgs EXCEPT !.fn = "unmarshalFromReader"]]
    /\ Goto(c, "get")
    /\ registries' = [registries EXCEPT ![r] = registries[DefaultRegistry]]
    /\ UNCHANGED <<dst, res, slot, pool, dec>>

\* 44-47
CallUnmarshalWithRegistry(c, r, data) ==
    Enter(c, "unmarshalFromReader", data, NewBSONDocumentReaderErr(data),
          RegistryContext(r))

\* Fault variant of line 38: Unmarshal decodes with a registry other than
\* the default one.
CallUnmarshalOtherRegistry(c, data) ==
    CallUnmarshalWithRegistry(c, CustomRegistry, data)

\* 38: return UnmarshalWithRegistry(DefaultRegistry, data, val)
CallUnmarshal(c, data) ==
    CallUnmarshalWithRegistry(c, DefaultRegistry, data)

\* 37-39
Unmarshal(c) ==
    \E data \in BSONFramings : CallUnmarshal(c, data)

UnmarshalWithRegistry(c) ==
    \E r \in Registries, data \in BSONFramings :
        CallUnmarshalWithRegistry(c, r, data)

\* 53-54
CallUnmarshalWithContext(c, dc, data) ==
    Enter(c, "unmarshalFromReader", data, NewBSONDocumentReaderErr(data), dc)

\* 52-55
UnmarshalWithContext(c) ==
    \E dc \in CallerContexts(c), data \in BSONFramings :
        CallUnmarshalWithContext(c, dc, data)

\* Fault variant of lines 67-74: the constructor's error is dropped and the
\* body runs with whatever reader came back.
CallUnmarshalExtJSONDropsErr(c, r, data) ==
    Enter(c, "unmarshalFromReader", data, Nil, RegistryContext(r))

\* 67-74
CallUnmarshalExtJSONWithRegistry(c, r, data) ==
    Enter(c, "unmarshalFromReader", data, NewExtJSONValueReaderErr(data),
          RegistryContext(r))

\* 61: return UnmarshalExtJSONWithRegistry(DefaultRegistry, data, ...)
CallUnmarshalExtJSON(c, data) ==
    CallUnmarshalExtJSONWithRegistry(c, DefaultRegistry, data)

\* 60-62
UnmarshalExtJSON(c) ==
    \E data \in ExtJSONFramings : CallUnmarshalExtJSON(c, data)

UnmarshalExtJSONWithRegistry(c) ==
    \E r \in Registries, data \in ExtJSONFramings :
        CallUnmarshalExtJSONWithRegistry(c, r, data)

\* 80-85
CallUnmarshalExtJSONWithContext(c, dc, data) ==
    Enter(c, "unmarshalFromReader", data, NewExtJSONValueReaderErr(data), dc)

\* 79-86
UnmarshalExtJSONWithContext(c) ==
    \E dc \in CallerContexts(c), data \in ExtJSONFramings :
        CallUnmarshalExtJSONWithContext(c, dc, data)

\* 125-129. The context of line 140 is built only after Reset; until then
\* the frame's dc is the zero value.
UnmarshalExtJSONWithRes(c) ==
    \E data \in ExtJSONFramings :
        Enter(c, "UnmarshalExtJSONWithRes", data,
              NewExtJSONValueReaderErr(data), NoContext)

WithRes(c) == args[c].fn = "UnmarshalExtJSONWithRes"

----------------------------------------------------------------------------
(* unmarshalFromReader(dc, vr, val), lines 88-102. *)

\* Fault variant of line 89: the Decoder is looked up in the pool and left
\* there.
ufrGetPeek(c) ==
    /\ pc[c] = "get" /\ ~WithRes(c)
    /\ \E d \in PoolGetChoices :
          /\ pool' = pool \cup {d}
          /\ dec' = IF d \in pool THEN dec ELSE [dec EXCEPT ![d] = FreshDecoder]
          /\ frame' = [frame EXCEPT ![c].dec = d]
          /\ ops' = [ops EXCEPT ![c] = Log(c, "Get", Nil)]
    /\ Goto(c, "reset")
    /\ UNCHANGED <<args, input, dst, res, slot, registries>>

\* Fault variant of line 89: a pool without New, whose Get waits for a Put.
ufrGetWaits(c) ==
    /\ pc[c] = "get" /\ ~WithRes(c)
    /\ \E d \in pool : PoolGet(c, d)
    /\ Goto(c, "reset")
    /\ UNCHANGED <<args, input, dst, res, slot, registries>>

\* 89-90: dec := decPool.Get().(*Decoder); defer decPool.Put(dec)
ufrGet(c) ==
    /\ pc[c] = "get" /\ ~WithRes(c)
    /\ \E d \in Decoders : PoolGet(c, d)
    /\ Goto(c, "reset")
    /\ UNCHANGED <<args, input, dst, res, slot, registries>>

\* Fault variant of lines 92-95: the Reset is left out.
ufrResetSkipped(c) ==
    /\ pc[c] = "reset" /\ ~WithRes(c)
    /\ Goto(c, "setctx")
    /\ UNCHANGED <<args, frame, input, ops, dst, res, slot, pool, dec,
                   registries>>

\* Fault variant of lines 92-95: the error of Reset is not checked.
ufrResetUnchecked(c) ==
    /\ pc[c] = "reset" /\ ~WithRes(c)
    /\ \E data \in ResetLooks(frame[c].vr) :
          /\ input' = [input EXCEPT ![frame[c].vr] = data]
          /\ dec' = [dec EXCEPT ![frame[c].dec] =
                        DecoderReset(@, frame[c].vr, data)]
          /\ Continue(c, "Reset", ResetErr(data), "setctx")
    /\ UNCHANGED <<args, dst, res, slot, registries>>

\* 92-95: err := dec.Reset(vr); if err != nil { return err }
ufrReset(c) ==
    /\ pc[c] = "reset" /\ ~WithRes(c)
    /\ \E data \in ResetLooks(frame[c].vr) :
       LET err == ResetErr(data) IN
          /\ input' = [input EXCEPT ![frame[c].vr] = data]
          /\ dec' = [dec EXCEPT ![frame[c].dec] =
                        DecoderReset(@, frame[c].vr, data)]
          /\ IF err # Nil
             THEN /\ Exit(c, <<Op("Reset", err)>>, err, "returned")
                  /\ \E k \in ValLooks(c) : SeeVal(c, k)
             ELSE /\ Continue(c, "Reset", err, "setctx")
                  /\ UNCHANGED args
    /\ UNCHANGED <<dst, res, slot, registries>>

\* Fault variant of lines 96-99: the error of SetContext is not checked.
ufrSetContextUnchecked(c) ==
    /\ pc[c] = "setctx" /\ ~WithRes(c)
    /\ LET err == SetContextErr(frame[c].dc) IN
          /\ dec' = [dec EXCEPT ![frame[c].dec] =
                        DecoderSetContext(@, frame[c].dc)]
          /\ Continue(c, "SetContext", err, "decode")
    /\ UNCHANGED <<args, input, dst, res, slot, registries>>

\* Fault variant of lines 96-99: only the registry of dc is carried into the
\* Decoder, the rest of its context is left as the last call set it.
ufrSetContextRegistryOnly(c) ==
    /\ pc[c] = "setctx" /\ ~WithRes(c)
    /\ LET err == SetContextErr(frame[c].dc) IN
          /\ dec' = IF err # Nil THEN dec
                    ELSE [dec EXCEPT ![frame[c].dec].dc.Registry =
                                        frame[c].dc.Registry]
          /\ IF err # Nil
             THEN /\ Exit(c, <<Op("SetContext", err)>>, err, "returned")
                  /\ \E k \in ValLooks(c) : SeeVal(c, k)
             ELSE /\ Continue(c, "SetContext", err, "decode")
                  /\ UNCHANGED args
    /\ UNCHANGED <<input, dst, res, slot, registries>>

\* 96-99: err = dec.SetContext(dc); if err != nil { return err }
ufrSetContext(c) ==
    /\ pc[c] = "setctx" /\ ~WithRes(c)
    /\ LET err == SetContextErr(frame[c].dc) IN
          /\ dec' = [dec EXCEPT ![frame[c].dec] =
                        DecoderSetContext(@, frame[c].dc)]
          /\ IF err # Nil
             THEN /\ Exit(c, <<Op("SetContext", err)>>, err, "returned")
                  /\ \E k \in ValLooks(c) : SeeVal(c, k)
             ELSE /\ Continue(c, "SetContext", err, "decode")
                  /\ UNCHANGED args
    /\ UNCHANGED <<input, dst, res, slot, registries>>

\* What dec.Decode(val) by call c on Decoder d does to the Decoder, the
\* bytes under its reader, the memory val points to and the capture slot
\* of the Decoder's context, o being its outcome on finding `data`.
Decoding(c, d, data, o) ==
    /\ input' = IF dec[d].vr \notin Calls THEN input
                ELSE [input EXCEPT ![dec[d].vr] = data]
    /\ dec' = [dec EXCEPT ![d].trav = o.trav]
    /\ dst' = [dst EXCEPT ![c] = o.dst]
    /\ slot' = IF o.wr /\ dec[d].dc.ValM \in Calls
               THEN [slot EXCEPT ![dec[d].dc.ValM] = o.cap]
               ELSE slot

\* Fault variant of line 101: the Decoder goes back to the pool first and is
\* used afterwards.
ufrDecodeAfterPut(c) ==
    /\ pc[c] = "decode" /\ ~WithRes(c)
    /\ \E k \in ValLooks(c) :
       \E data \in DecodeLooks(dec[frame[c].dec], k) :
       \E o \in DecoderDecode(dec[frame[c].dec], k, dst[c], data) :
          /\ SeeVal(c, k)
          /\ Decoding(c, frame[c].dec, data, o)
          /\ ops' = [ops EXCEPT ![c] =
                        ops[c] \o <<Op("Put", Nil), Op("Decode", o.err)>>]
          /\ frame' = [frame EXCEPT ![c].err = o.err, ![c].out = "returned"]
          /\ PoolPut(c)
          /\ Goto(c, "done")
    /\ UNCHANGED <<res, registries>>

\* Fault variant of line 101: one package-level Decoder, the first ever
\* constructed, decodes for every call.
ufrDecodeShared(c) ==
    /\ pc[c] = "decode" /\ ~WithRes(c)
    /\ LET shared == CHOOSE d \in Decoders : \A e \in Decoders : d <= e IN
       \E k \in ValLooks(c) :
       \E data \in DecodeLooks(dec[shared], k) :
       \E o \in DecoderDecode(dec[shared], k, dst[c], data) :
          /\ SeeVal(c, k)
          /\ Decoding(c, shared, data, o)
          /\ Exit(c, <<Op("Decode", o.err)>>, o.err, "returned")
    /\ UNCHANGED <<res, registries>>

\* 101: return dec.Decode(val)
ufrDecode(c) ==
    /\ pc[c] = "decode" /\ ~WithRes(c)
    /\ \E k \in ValLooks(c) :
       \E data \in DecodeLooks(dec[frame[c].dec], k) :
       \E o \in DecoderDecode(dec[frame[c].dec], k, dst[c], data) :
          /\ SeeVal(c, k)
          /\ Decoding(c, frame[c].dec, data, o)
          /\ Exit(c, <<Op("Decode", o.err)>>, o.err, "returned")
    /\ UNCHANGED <<res, registries>>

unmarshalFromReader(c) ==
    \/ ufrGet(c)
    \/ ufrReset(c)
    \/ ufrSetContext(c)
    \/ ufrDecode(c)

----------------------------------------------------------------------------
(* UnmarshalExtJSONWithRes(data, canonical, val, res), lines 131-153. *)

\* 131-132: dec := decPool.Get().(*Decoder); defer decPool.Put(dec)
resGet(c) ==
    /\ pc[c] = "get" /\ WithRes(c)
    /\ \E d \in Decoders : PoolGet(c, d)
    /\ Goto(c, "reset")
    /\ UNCHANGED <<args, input, dst, res, slot, registries>>

\* 134-137: err = dec.Reset(ejvr); if err != nil { return err }
resReset(c) ==
    /\ pc[c] = "reset" /\ WithRes(c)
    /\ \E data \in ResetLooks(frame[c].vr) :
       LET err == ResetErr(data) IN
          /\ input' = [input EXCEPT ![frame[c].vr] = data]
          /\ dec' = [dec EXCEPT ![frame[c].dec] =
                        DecoderReset(@, frame[c].vr, data)]
          /\ IF err # Nil
             THEN /\ Exit(c, <<Op("Reset", err)>>, err, "returned")
                  /\ \E k \in ValLooks(c) : SeeVal(c, k)
             ELSE /\ Continue(c, "Reset", err, "setctx")
                  /\ UNCHANGED args
    /\ UNCHANGED <<dst, res, slot, registries>>

\* Fault variant of lines 138-140: vM is one package-level variable, the
\* same slot for every call.
ResContextSharedSlot(c) ==
    [Registry |-> DefaultRegistry,
     ValM |-> CHOOSE s \in Calls : \A t \in Calls : s <= t,
     SetVal |-> TRUE]

\* 138: var vM = new(reflect.Value): the call's own slot, named c.
\* 140: DecodeContext{Registry: DefaultRegistry, ValM: vM, SetVal: true}
ResContext(c) == [Registry |-> DefaultRegistry, ValM |-> c, SetVal |-> TRUE]

\* Fault variant of lines 138-143: the context bound is the plain default
\* one, and the capture is meant to come from a second pass.
resSetContextPlain(c) ==
    /\ pc[c] = "setctx" /\ WithRes(c)
    /\ LET dc == RegistryContext(DefaultRegistry)
           err == SetContextErr(dc)
       IN /\ slot' = [slot EXCEPT ![c] = ZeroValue]
          /\ dec' = [dec EXCEPT ![frame[c].dec] = DecoderSetContext(@, dc)]
          /\ ops' = [ops EXCEPT ![c] = Log(c, "SetContext", err)]
          /\ frame' = [frame EXCEPT ![c].err = err, ![c].dc = ResContext(c)]
          /\ Goto(c, "decode")
          /\ UNCHANGED <<args, pool>>
    /\ UNCHANGED <<input, dst, res, registries>>

\* 138-143: err = dec.SetContext(...); if err != nil { return err }
resSetContext(c) ==
    /\ pc[c] = "setctx" /\ WithRes(c)
    /\ LET dc == ResContext(c)
           err == SetContextErr(dc)
       IN /\ slot' = [slot EXCEPT ![dc.ValM] = ZeroValue]
          /\ dec' = [dec EXCEPT ![frame[c].dec] = DecoderSetContext(@, dc)]
          /\ IF err # Nil
             THEN /\ Exit(c, <<Op("SetContext", err)>>, err, "returned")
                  /\ \E k \in ValLooks(c) : SeeVal(c, k)
             ELSE /\ ops' = [ops EXCEPT ![c] = Log(c, "SetContext", err)]
                  /\ frame' = [frame EXCEPT ![c].err = err, ![c].dc = dc]
                  /\ Goto(c, "decode")
                  /\ UNCHANGED <<args, pool>>
    /\ UNCHANGED <<input, dst, res, registries>>

\* Fault variant of lines 146-149: the error of Decode is not checked
\* before the commit.
resDecodeUnchecked(c) ==
    /\ pc[c] = "decode" /\ WithRes(c)
    /\ \E k \in ValLooks(c) :
       \E data \in DecodeLooks(dec[frame[c].dec], k) :
       \E o \in DecoderDecode(dec[frame[c].dec], k, dst[c], data) :
          /\ SeeVal(c, k)
          /\ Decoding(c, frame[c].dec, data, o)
          /\ Continue(c, "Decode", o.err, "commit")
    /\ UNCHANGED <<res, registries>>

\* 146-149: err = dec.Decode(val); if err != nil { return err }
resDecode(c) ==
    /\ pc[c] = "decode" /\ WithRes(c)
    /\ \E k \in ValLooks(c) :
       \E data \in DecodeLooks(dec[frame[c].dec], k) :
       \E o \in DecoderDecode(dec[frame[c].dec], k, dst[c], data) :
          /\ SeeVal(c, k)
          /\ Decoding(c, frame[c].dec, data, o)
          /\ IF o.err # Nil
             THEN Exit(c, <<Op("Decode", o.err)>>, o.err, "returned")
             ELSE Continue(c, "Decode", o.err, "commit")
    /\ UNCHANGED <<res, registries>>

\* Fault variant of lines 150-152: the Put is not deferred but called
\* before the commit.
resCommitAfterRelease(c) ==
    /\ pc[c] = "commit" /\ WithRes(c)
    /\ \E rk \in ResLooks(c) :
          /\ args' = [args EXCEPT ![c].res = rk]
          /\ frame' = [frame EXCEPT ![c].out =
                IF rk = "ptr" /\ slot[frame[c].dc.ValM] # ZeroValue
                THEN "returned" ELSE "panicked"]
          /\ IF rk # "ptr"
             THEN /\ ops' = [ops EXCEPT ![c] = ops[c] \o <<Op("Put", Nil)>>]
                  /\ UNCHANGED res
             ELSE IF slot[frame[c].dc.ValM] = ZeroValue
             THEN /\ ops' = [ops EXCEPT ![c] =
                        ops[c] \o <<Op("Put", Nil), Op("ReadSlot", Nil)>>]
                  /\ UNCHANGED res
             ELSE /\ ops' = [ops EXCEPT ![c] =
                        ops[c] \o <<Op("Put", Nil), Op("ReadSlot", Nil),
                                    Op("SetRes", Nil)>>]
                  /\ res' = [res EXCEPT ![c] = slot[frame[c].dc.ValM]]
    /\ PoolPut(c)
    /\ Goto(c, "done")
    /\ UNCHANGED <<input, dst, slot, dec, registries>>

\* Fault variant of lines 150-152: res and the capture are validated before
\* the commit and an error is returned for them.
resCommitValidated(c) ==
    /\ pc[c] = "commit" /\ WithRes(c)
    /\ \E rk \in ResLooks(c) :
          /\ args' = [args EXCEPT ![c].res = rk]
          /\ IF rk # "ptr" \/ slot[frame[c].dc.ValM] = ZeroValue
             THEN /\ Exit(c, <<>>, ErrInvalidDest, "returned")
                  /\ UNCHANGED res
             ELSE /\ Exit(c, <<Op("ReadSlot", Nil), Op("SetRes", Nil)>>,
                          frame[c].err, "returned")
                  /\ res' = [res EXCEPT ![c] = slot[frame[c].dc.ValM]]
    /\ UNCHANGED <<input, dst, slot, dec, registries>>

\* 150-152: reflect.ValueOf(res).Elem().Set(*vM); return err
\* Elem panics when res is nil or no pointer (Go leaves open whether *vM
\* has been loaded by then), Set panics when *vM is the zero Value.
resCommit(c) ==
    /\ pc[c] = "commit" /\ WithRes(c)
    /\ \E rk \in ResLooks(c) :
          /\ args' = [args EXCEPT ![c].res = rk]
          /\ IF rk # "ptr"
             THEN /\ \E loaded \in BOOLEAN :
                       Exit(c, IF loaded THEN <<Op("ReadSlot", Nil)>>
                               ELSE <<>>, frame[c].err, "panicked")
                  /\ UNCHANGED res
             ELSE IF slot[frame[c].dc.ValM] = ZeroValue
             THEN /\ Exit(c, <<Op("ReadSlot", Nil)>>, frame[c].err,
                          "panicked")
                  /\ UNCHANGED res
             ELSE /\ Exit(c, <<Op("ReadSlot", Nil), Op("SetRes", Nil)>>,
                          frame[c].err, "returned")
                  /\ res' = [res EXCEPT ![c] = slot[frame[c].dc.ValM]]
    /\ UNCHANGED <<input, dst, slot, dec, registries>>

UnmarshalExtJSONWithResBody(c) ==
    \/ resGet(c)
    \/ resReset(c)
    \/ resSetContext(c)
    \/ resDecode(c)
    \/ resCommit(c)

----------------------------------------------------------------------------
\* What Decoder fields ds are once the reader and the slot of call c are
\* out of every call's reach.
Forget(ds, c) ==
    [ds EXCEPT !.vr = IF @ = c THEN Gone ELSE @,
               !.dc.ValM = IF @ = c THEN Gone ELSE @]

\* The caller has the result (or has recovered the panic); its goroutine is
\* free to make the next call, with a reader, destinations and a slot of
\* its own.
Return(c) ==
    /\ pc[c] = "done"
    /\ Goto(c, "idle")
    /\ args' = [args EXCEPT ![c] = NoArgs]
    /\ frame' = [frame EXCEPT ![c] = NoFrame]
    /\ input' = [input EXCEPT ![c] = NoData]
    /\ ops' = [ops EXCEPT ![c] = <<>>]
    /\ dst' = [dst EXCEPT ![c] = PreCall]
    /\ res' = [res EXCEPT ![c] = PreCall]
    /\ slot' = [slot EXCEPT ![c] = ZeroValue]
    /\ dec' = [d \in Decoders |-> Forget(dec[d], c)]
    /\ UNCHANGED <<pool, registries>>

Step(c) ==
    \/ Unmarshal(c)
    \/ UnmarshalWithRegistry(c)
    \/ UnmarshalWithContext(c)
    \/ UnmarshalExtJSON(c)
    \/ UnmarshalExtJSONWithRegistry(c)
    \/ UnmarshalExtJSONWithContext(c)
    \/ UnmarshalExtJSONWithRes(c)
    \/ unmarshalFromReader(c)
    \/ UnmarshalExtJSONWithResBody(c)
    \/ Return(c)

Next == \E c \in Calls : Step(c)

Spec == Init /\ [][Next]_vars

----------------------------------------------------------------------------
(* Properties. *)

\* Call c is between its decPool.Get and the end of its body.
InFlight(c) == pc[c] \in {"reset", "setctx", "decode", "commit"}
Over(c) == pc[c] = "done"
Returned(c) == Over(c) /\ frame[c].out = "returned"
\* The operations a call performs on its Decoder, in the order performed.
DecoderOps(c) ==
    SelectSeq(OpNames(c),
              LAMBDA n : n \in {"Get", "Reset", "SetContext", "Decode", "Put"})
\* The steps that can fail, and the first error among those a call ran.
Fallible == {"NewReader", "Reset", "SetContext", "Decode"}
Failures(c) ==
    {i \in 1..Len(ops[c]) : ops[c][i].op \in Fallible /\ ops[c][i].err # Nil}
FirstErr(c) ==
    IF Failures(c) = {} THEN Nil
    ELSE ops[c][CHOOSE i \in Failures(c) : \A j \in Failures(c) : i <= j].err

\* C1: a call that took a Decoder from the pool has put it back exactly
\* once when it is over, whichever step failed or none (a panicking commit
\* included); it never puts twice nor without a Get; and when no call is
\* running, no Decoder is checked out: each one that was taken is idle in
\* the pool.
DecoderReleasedOnce ==
    /\ \A c \in Calls :
          /\ Count(c, "Put") <= Count(c, "Get")
          /\ Count(c, "Get") <= 1
          /\ Over(c) /\ HasOp(c, "Get") =>
                /\ Count(c, "Put") = 1
                /\ frame[c].dec \in pool
                       \/ \E o \in Calls \ {c} :
                             InFlight(o) /\ frame[o].dec = frame[c].dec
    /\ (\A c \in Calls : pc[c] \in {"idle", "done"}) =>
          /\ \A d \in Decoders : Holder(d) = {}
          /\ \A c \in Calls : HasOp(c, "Get") => frame[c].dec \in pool

\* One call is over after a failed step and another after a panicking
\* commit, both having held a Decoder.
DecoderReleasedOnceWitness ==
    \E c1, c2 \in Calls :
        /\ Over(c1) /\ frame[c1].err \in {ErrReset, ErrContext, ErrDecode}
        /\ HasOp(c1, "Get")
        /\ Over(c2) /\ frame[c2].out = "panicked" /\ HasOp(c2, "Get")

\* C2: under every interleaving, two calls never hold the same Decoder at
\* once, and a Decoder a call holds is not in the pool for another Get.
ExclusiveOwnership ==
    /\ \A c1, c2 \in Calls :
          c1 # c2 /\ InFlight(c1) /\ InFlight(c2) =>
              frame[c1].dec # frame[c2].dec
    /\ \A c \in Calls : InFlight(c) =>
          /\ frame[c].dec \in Decoders
          /\ frame[c].dec \notin pool
          /\ Holder(frame[c].dec) = {c}

\* Two calls are about to decode at once, one with a Decoder an earlier call
\* bound and released.
ExclusiveOwnershipWitness ==
    \E c1, c2 \in Calls :
        /\ c1 # c2 /\ pc[c1] = "decode" /\ pc[c2] = "reset"
        /\ dec[frame[c2].dec].vr = Gone

\* C3: a call's operations on its Decoder are a prefix of Get, Reset,
\* SetContext, Decode, with Put as the last one: Decode runs only after a
\* Reset and then a SetContext of the same call returned no error, and
\* nothing follows the Put.
AcquireResetBindDecodeRelease ==
    \A c \in Calls :
        LET o == DecoderOps(c)
            n == Len(o)
            body == IF n > 0 /\ o[n] = "Put" THEN SubSeq(o, 1, n - 1) ELSE o
            order == <<"Get", "Reset", "SetContext", "Decode">>
        IN /\ Len(body) <= Len(order) /\ body = SubSeq(order, 1, Len(body))
           /\ n > 0 /\ o[n] = "Put" => body # <<>>
           /\ \A i \in 1..Len(ops[c]) :
                ops[c][i].op = "Decode" =>
                   /\ \E j \in 1..(i - 1) :
                         ops[c][j] = Op("Reset", Nil)
                   /\ \E j \in 1..(i - 1) :
                         ops[c][j] = Op("SetContext", Nil)

\* A call ran all five operations, and another stopped after a failed
\* Reset.
AcquireResetBindDecodeReleaseWitness ==
    \E c1, c2 \in Calls :
        /\ DecoderOps(c1) = <<"Get", "Reset", "SetContext", "Decode", "Put">>
        /\ DecoderOps(c2) = <<"Get", "Reset", "Put">>

\* C4: what an entry point returns is the error of the first step that
\* failed, in the order reader construction, Reset, SetContext, Decode, and
\* nil exactly when all of them succeeded; after a failed step only the
\* deferred Put runs, and no step runs twice.
FirstErrorReturned ==
    \A c \in Calls :
        /\ Returned(c) => frame[c].err = FirstErr(c)
        /\ Returned(c) =>
              (frame[c].err = Nil <=>
                 \A n \in Fallible : Op(n, Nil) \in
                                        {ops[c][i] : i \in 1..Len(ops[c])})
        /\ \A i \in Failures(c) :
              \A j \in (i + 1)..Len(ops[c]) : ops[c][j].op = "Put"
        /\ \A n \in Fallible : Count(c, n) <= 1

\* One call returned the error of SetContext, another the error of Decode,
\* each with nothing but the Put after it.
FirstErrorReturnedWitness ==
    \E c1, c2 \in Calls :
        /\ Returned(c1) /\ frame[c1].err = ErrContext
        /\ ops[c1][Len(ops[c1]) - 1] = Op("SetContext", ErrContext)
        /\ Returned(c2) /\ frame[c2].err = ErrDecode
        /\ ops[c2][Len(ops[c2]) - 1] = Op("Decode", ErrDecode)

\* C5: a call whose val is nil or no pointer ends with the
\* invalid-destination error, whatever the input, and has by then run
\* neither Reset nor SetContext.
InvalidDestinationFailsFirst ==
    \A c \in Calls :
        Over(c) /\ args[c].val \in {"nil", "nonptr"} =>
            /\ frame[c].err = ErrInvalidDest
            /\ ~HasOp(c, "Reset") /\ ~HasOp(c, "SetContext")

\* C6: when the extended-JSON reader cannot be constructed the call is
\* over at once with that error: no Decoder was taken, Reset, SetContext and
\* Decode did not run, and val's and res's memory is as before the call.
\* The error is returned in no other case.
ReaderFailureReturnsAtOnce ==
    \A c \in Calls :
        /\ input[c] = "badframe" =>
              /\ Returned(c) /\ frame[c].err = ErrReader
              /\ ops[c] = <<Op("NewReader", ErrReader)>>
              /\ frame[c].dec = NoDecoder
              /\ dst[c] = PreCall /\ res[c] = PreCall
        /\ Over(c) /\ frame[c].err = ErrReader => input[c] = "badframe"

\* A call of UnmarshalExtJSONWithRes and a call of another extended-JSON
\* entry point are both over on a reader-construction error, while a
\* Decoder sits idle in the pool.
ReaderFailureReturnsAtOnceWitness ==
    \E c1, c2 \in Calls :
        /\ Over(c1) /\ WithRes(c1) /\ frame[c1].err = ErrReader
        /\ Over(c2) /\ ~WithRes(c2) /\ frame[c2].err = ErrReader
        /\ pool # {}

\* C7: UnmarshalExtJSONWithRes writes res only after Decode returned no
\* error, and then with what the capture slot holds; a call that ends on an
\* error leaves res as it was; the slot is read at most once, never before
\* Decode returned nil, and exactly once by a call that returns nil.
CaptureCommittedOnSuccessOnly ==
    \A c \in Calls :
        LET reads == {i \in 1..Len(ops[c]) : ops[c][i].op = "ReadSlot"}
            sets == {i \in 1..Len(ops[c]) : ops[c][i].op = "SetRes"}
        IN /\ Cardinality(reads) <= 1
           /\ \A i \in reads \cup sets :
                 \E j \in 1..(i - 1) : ops[c][j] = Op("Decode", Nil)
           /\ res[c] # PreCall => sets # {} /\ res[c] = slot[c]
           /\ Over(c) /\ frame[c].err # Nil => res[c] = PreCall /\ reads = {}
           /\ Returned(c) /\ WithRes(c) /\ frame[c].err = Nil =>
                 /\ Cardinality(reads) = 1 /\ Cardinality(sets) = 1
                 /\ res[c] = slot[c] /\ res[c] # PreCall

\* One call committed its capture and another ended on a Decode error with
\* res untouched.
CaptureCommittedOnSuccessOnlyWitness ==
    \E c1, c2 \in Calls :
        /\ Returned(c1) /\ WithRes(c1) /\ frame[c1].err = Nil
        /\ res[c1] = Generic(c1)
        /\ Returned(c2) /\ WithRes(c2) /\ frame[c2].err = ErrDecode
        /\ res[c2] = PreCall

\* C8: whatever earlier calls left in a pooled Decoder, when a call is about
\* to run Decode the Decoder's reader, context and traversal state are
\* those a freshly constructed Decoder has after the same Reset and
\* SetContext, so the decode comes out the same: its own document.
ReuseDecodesAsFresh ==
    \A c \in Calls :
        /\ pc[c] \in {"decode", "commit"} =>
              LET ds == dec[frame[c].dec]
                  fresh == DecoderSetContext(
                               DecoderReset(FreshDecoder, frame[c].vr,
                                            input[frame[c].vr]),
                               frame[c].dc)
              IN /\ ds.vr = fresh.vr /\ ds.vr = c
                 /\ ds.dc = fresh.dc
                 /\ pc[c] = "decode" => ds.trav = "clean"
        /\ Over(c) /\ HasOp(c, "Decode") /\ frame[c].err = Nil =>
              dst[c] = Typed(c)

\* A call is about to decode with a Decoder on which another call's Decode
\* failed and which still carries what a call before that one bound.
ReuseDecodesAsFreshWitness ==
    \E c, o \in Calls :
        /\ c # o /\ pc[c] = "decode"
        /\ Over(o) /\ frame[o].err = ErrDecode
        /\ frame[o].dec = frame[c].dec

\* C9: with concurrent calls, a call given a well-formed document, a valid
\* destination and a registry that has a rule for it returns nil, and a
\* destination or capture slot only ever holds values of its own call's
\* document.
ConcurrentDecodesIsolated ==
    \A c \in Calls :
        /\ dst[c] \in {PreCall, Partial, Typed(c)}
        /\ slot[c] \in {ZeroValue, Generic(c)}
        /\ res[c] \in {PreCall, Generic(c)}
        /\ ( /\ Over(c) /\ input[c] = "ok"
             /\ args[c].val \in {"struct", "other"}
             /\ frame[c].dc.Registry \in Registries )
           => IF registries[frame[c].dc.Registry][args[c].val]
              THEN frame[c].err = Nil /\ dst[c] = Typed(c)
              ELSE frame[c].err = ErrNoDecoder

\* Two calls that held different Decoders have both decoded their own
\* documents.
ConcurrentDecodesIsolatedWitness ==
    \E c1, c2 \in Calls :
        /\ c1 # c2
        /\ Returned(c1) /\ frame[c1].err = Nil /\ dst[c1] = Typed(c1)
        /\ Returned(c2) /\ frame[c2].err = Nil /\ dst[c2] = Typed(c2)
        /\ frame[c1].dec # frame[c2].dec

\* C10: a call at decPool.Get can always take its step, however many other
\* calls hold Decoders: with the pool empty, Get hands out a Decoder that no
\* call holds.
AcquireNeverWaits ==
    \A c \in Calls :
        pc[c] = "get" =>
            /\ ENABLED (ufrGet(c) \/ resGet(c))
            /\ pool = {} => FreeDecoders # {}

\* A call is at Get while the pool is empty and every other call holds a
\* Decoder.
AcquireNeverWaitsWitness ==
    \E c \in Calls :
        /\ pc[c] = "get" /\ pool = {}
        /\ \A o \in Calls \ {c} : InFlight(o)

\* C11: in UnmarshalExtJSONWithRes both outputs come from one traversal:
\* one reader is constructed, Decode runs at most once and with a context
\* that has SetVal on and the call's slot as ValM, nothing touches the input
\* after that Decode, and what is committed to res is what the slot holds
\* from it.
OneTraversalTwoOutputs ==
    \A c \in Calls : WithRes(c) =>
        /\ Count(c, "NewReader") = 1
        /\ Count(c, "Decode") <= 1
        /\ pc[c] \in {"decode", "commit"} =>
              /\ dec[frame[c].dec].dc.SetVal
              /\ dec[frame[c].dec].dc.ValM \in Calls
              /\ dec[frame[c].dec].dc = frame[c].dc
        /\ \A i \in 1..Len(ops[c]) : ops[c][i].op = "Decode" =>
              \A j \in (i + 1)..Len(ops[c]) :
                  ops[c][j].op \in {"ReadSlot", "SetRes", "Put"}
        /\ HasOp(c, "SetRes") =>
              /\ res[c] = slot[frame[c].dc.ValM]
              /\ res[c] = Generic(frame[c].vr) /\ dst[c] = Typed(frame[c].vr)

\* A call of UnmarshalExtJSONWithRes has returned with val and res both
\* holding its document after one Decode.
OneTraversalTwoOutputsWitness ==
    \E c \in Calls :
        /\ Returned(c) /\ WithRes(c) /\ frame[c].err = Nil
        /\ Count(c, "Decode") = 1
        /\ dst[c] = Typed(c) /\ res[c] = Generic(c)

\* C12: Decode never runs with a context that has SetVal on and no usable
\* capture slot: a call given such a context ends at SetContext with its
\* error (unless Reset failed before), and Decode is not invoked.
DualOutputNeedsSlot ==
    \A c \in Calls :
        LET broken == frame[c].dc.SetVal /\ frame[c].dc.ValM = NoSlot IN
        /\ pc[c] \in {"decode", "commit"} =>
              /\ ~broken
              /\ dec[frame[c].dec].dc.SetVal =>
                    dec[frame[c].dec].dc.ValM \in Calls
        /\ broken => ~HasOp(c, "Decode")
        /\ broken /\ Over(c) =>
              /\ frame[c].err \in {ErrReset, ErrContext}
              /\ HasOp(c, "SetContext") =>
                    /\ frame[c].err = ErrContext
                    /\ ops[c][Len(ops[c]) - 1] = Op("SetContext", ErrContext)

\* A call given a dual-output context without a slot is over with the
\* error of SetContext.
DualOutputNeedsSlotWitness ==
    \E c \in Calls :
        /\ Returned(c) /\ ~WithRes(c)
        /\ frame[c].dc.SetVal /\ frame[c].dc.ValM = NoSlot
        /\ frame[c].err = ErrContext /\ ~HasOp(c, "Decode")

RegistryNeverChanged ==
    [][/\ registries' = registries
       /\ \A d \in Decoders :
            dec'[d].dc # dec[d].dc =>
               \/ \E c \in Calls :
                     /\ pc[c] = "setctx" /\ pc'[c] = "decode"
                     /\ frame[c].dec = d /\ dec'[d].dc = frame'[c].dc
               \/ \E c \in Calls :
                     /\ pc[c] = "get" /\ frame'[c].dec = d
                     /\ d \notin pool /\ dec'[d] = FreshDecoder
               \/ \E c \in Calls :
                     /\ pc[c] = "done" /\ pc'[c] = "idle"
                     /\ dec'[d] = Forget(dec[d], c)
      ]_vars

\* Calls with a caller-supplied registry are over, one that decoded and
\* one that found no rule, and a Decoder in the pool still carries that
\* registry in its context.
RegistryNeverChangedWitness ==
    \E c1, c2 \in Calls :
        /\ Returned(c1) /\ frame[c1].dc.Registry = CustomRegistry
        /\ frame[c1].err = Nil
        /\ Returned(c2) /\ frame[c2].dc.Registry = CustomRegistry
        /\ frame[c2].err = ErrNoDecoder
        /\ \E d \in pool : dec[d].dc.Registry = CustomRegistry
        /\ ~registries[CustomRegistry]["other"]

\* C15 (as the code has it): in UnmarshalExtJSONWithRes the capture is
\* committed while the call still holds its Decoder: the write of res comes
\* after Decode and before the Put, which is deferred and runs when the
\* function returns, as the last thing the call does.
CommitBeforeRelease ==
    \A c \in Calls :
        \A i \in 1..Len(ops[c]) :
            ops[c][i].op \in {"ReadSlot", "SetRes"} =>
                /\ \A j \in 1..(i - 1) : ops[c][j].op # "Put"
                /\ \E j \in 1..(i - 1) : ops[c][j] = Op("Decode", Nil)
                /\ Over(c) => ops[c][Len(ops[c])].op = "Put"

\* A call has committed its capture and then released its Decoder.
CommitBeforeReleaseWitness ==
    \E c \in Calls :
        /\ Returned(c) /\ WithRes(c) /\ res[c] = Generic(c)
        /\ Len(ops[c]) >= 2
        /\ ops[c][Len(ops[c]) - 1].op = "SetRes"
        /\ ops[c][Len(ops[c])].op = "Put"
        /\ frame[c].dec \in pool

\* C15 as stated: the Decoder is back in the pool by the time res is
\* written, so the write of res is preceded by the call's Put.
ReleaseBeforeCommit ==
    \A c \in Calls :
        \A i \in 1..Len(ops[c]) :
            ops[c][i].op = "SetRes" =>
                \E j \in 1..(i - 1) : ops[c][j].op = "Put"

OwnCaptureSlot ==
    \A c \in Calls : WithRes(c) /\ pc[c] \in {"decode", "commit"} =>
        LET s == dec[frame[c].dec].dc.ValM
        IN /\ s \in Calls /\ s = frame[c].dc.ValM
           /\ pc[c] = "decode" => slot[s] = ZeroValue
           /\ pc[c] = "commit" => slot[s] \in {ZeroValue, Generic(frame[c].vr)}
           /\ \A o \in Calls \ {c} :
                 /\ frame[o].dc.ValM # s
                 /\ InFlight(o) => dec[frame[o].dec].dc.ValM # s
           /\ \A d \in Decoders \ {frame[c].dec} : dec[d].dc.ValM # s

\* Two calls of UnmarshalExtJSONWithRes are in flight at once, one with its
\* capture accumulated and one about to decode.
OwnCaptureSlotWitness ==
    \E c1, c2 \in Calls :
        /\ WithRes(c1) /\ pc[c1] = "commit"
        /\ slot[frame[c1].dc.ValM] = Generic(c1)
        /\ WithRes(c2) /\ pc[c2] = "decode"
        /\ slot[frame[c2].dc.ValM] = ZeroValue

\* C18: UnmarshalExtJSONWithRes does not look at res before decoding: when
\* res is nil or no pointer, or Decode succeeded without writing the capture
\* slot, val has been decoded in full and the call panics at the commit
\* rather than returning an error; res is untouched and the Decoder has
\* still been put back exactly once. No call panics otherwise.
CommitPanicsOnBadCapture ==
    \A c \in Calls :
        /\ frame[c].out = "panicked" =>
              /\ WithRes(c) /\ Over(c)
              /\ Op("Decode", Nil) \in {ops[c][i] : i \in 1..Len(ops[c])}
        /\ ( /\ WithRes(c) /\ Over(c)
             /\ Op("Decode", Nil) \in {ops[c][i] : i \in 1..Len(ops[c])} ) =>
              LET bad == \/ args[c].res # "ptr"
                         \/ slot[frame[c].dc.ValM] = ZeroValue
              IN /\ dst[c] = Typed(frame[c].vr)
                 /\ bad <=> frame[c].out = "panicked"
                 /\ bad =>
                       /\ frame[c].err = Nil /\ res[c] = PreCall
                       /\ ~HasOp(c, "SetRes")
                       /\ Count(c, "Put") = 1
                       /\ ops[c][Len(ops[c])].op = "Put"
                       /\ frame[c].dec \in pool
                             \/ \E o \in Calls \ {c} :
                                   InFlight(o) /\ frame[o].dec = frame[c].dec

\* One call panicked on a nil res and another on a capture slot that Decode
\* never wrote, both with val decoded and their Decoders back in the pool.
CommitPanicsOnBadCaptureWitness ==
    \E c1, c2 \in Calls :
        /\ frame[c1].out = "panicked" /\ args[c1].res = "nil"
        /\ dst[c1] = Typed(c1) /\ frame[c1].dec \in pool
        /\ frame[c2].out = "panicked" /\ args[c2].res = "ptr"
        /\ slot[frame[c2].dc.ValM] = ZeroValue
        /\ dst[c2] = Typed(c2) /\ frame[c2].dec \in pool

====
